---- MODULE Spec2Model ----
(***************************************************************************)
(* Model of the addressable JSON tree index of json4u                      *)
(* (src/src/lib/parser/tree.ts): the Tree class with its node map, text,   *)
(* pending (nest) node map, offset lookup, stringifier and patch engine.   *)
(*                                                                         *)
(* Around it, the editor layer (src/src/lib/editor/editor.ts): folding      *)
(* ranges, the parse pipeline, scroll and fold synchronisation.            *)
(*                                                                         *)
(* Text is a sequence of one-character strings.  A node identifier is the  *)
(* node's path, a sequence of child keys; the root is the empty path.      *)
(***************************************************************************)
EXTENDS Integers, Sequences, FiniteSets, TLC

\* the tree: of the Tree object under test, or this.tree of the main editor
VARIABLES nodeMap, text, nestNodeMap, errors, last, ops

\* the editors around the tree (src/src/lib/editor/editor.ts):
\*   editorValue       editor.getValue() of the main editor
\*   delayParseAndSet  the pending invocation of the debounced parseAndSet
\*   worker            the parseAndFormat calls sent to the worker
\*   status            the status store
\*   scrolling         the scrolling counter of each editor
\*   scrollEvents      scroll events raised and not yet handled
\*   folding           fold state of each editor, handlers and effects due
VARIABLES editorValue, delayParseAndSet, worker, status, scrolling, scrollEvents, folding

editorVars ==
  <<editorValue, delayParseAndSet, worker, status, scrolling, scrollEvents, folding>>

vars == <<nodeMap, text, nestNodeMap, errors, last, ops, editorVars>>

\* the two editors
Kinds == {"main", "secondary"}

\* no fold action published yet
NoFoldAction == [nodeId |-> "none", isFolded |-> FALSE, fromKind |-> "none"]

\* the editors as constructed, nothing typed, scrolled or folded
EditorIdle ==
  /\ editorValue = <<>>
  /\ delayParseAndSet = <<>>
  /\ worker = [calls |-> <<>>, pending |-> {}]
  /\ status = [format |-> FALSE, enableSyncScroll |-> FALSE, enableSyncFold |-> FALSE,
               lastFoldAction |-> NoFoldAction]
  /\ scrolling = [k \in Kinds |-> 0]
  /\ scrollEvents = <<>>
  /\ folding = [collapsed |-> [k \in Kinds |-> {}],
                cursor |-> [k \in Kinds |-> "none"],
                events |-> [k \in Kinds |-> 0],
                effects |-> [k \in Kinds |-> <<>>],
                published |-> 0]

----------------------------------------------------------------------------
(* Bounds of the model *)

\* number of stringify / stringifyNestNodes calls made on one tree
MaxOps == 2
\* offsets probed by findNodeAtOffset range over 0..Len(text)+MaxProbe
MaxProbe == 1

----------------------------------------------------------------------------
(* Strings *)

Max(a, b) == IF a >= b THEN a ELSE b
Min(a, b) == IF a <= b THEN a ELSE b

WS == {" ", "\n"}

\* String.prototype.slice / substring for non-negative arguments: [a, b)
Slice(s, a, b) == SubSeq(s, Min(Max(a, 0), Len(s)) + 1, Min(Max(b, 0), Len(s)))

RECURSIVE TrimStart(_)
TrimStart(s) == IF s # <<>> /\ Head(s) \in WS THEN TrimStart(Tail(s)) ELSE s

RECURSIVE TrimEnd(_)
TrimEnd(s) ==
  IF s # <<>> /\ s[Len(s)] \in WS THEN TrimEnd(SubSeq(s, 1, Len(s) - 1)) ELSE s

\* String.prototype.trim
Trim(s) == TrimEnd(TrimStart(s))

RECURSIVE repeat(_, _)
repeat(c, n) == IF n <= 0 THEN <<>> ELSE <<c>> \o repeat(c, n - 1)

\* code-unit order of the one-character keys used by the model
KeyOrder == <<"\"", ".", "0", "1", "2", "[", "a", "b", "c">>
KeyRank(k) == CHOOSE i \in 1..Len(KeyOrder) : KeyOrder[i] = k

RECURSIVE InsertSorted(_, _)
InsertSorted(k, s) ==
  IF s = <<>> THEN <<k>>
  ELSE IF KeyRank(k) <= KeyRank(Head(s)) THEN <<k>> \o s
  ELSE <<Head(s)>> \o InsertSorted(k, Tail(s))

\* Array.prototype.sort() with the default comparison
RECURSIVE SortAsc(_)
SortAsc(s) == IF s = <<>> THEN <<>> ELSE InsertSorted(Head(s), SortAsc(Tail(s)))

RECURSIVE Reverse(_)
Reverse(s) == IF s = <<>> THEN <<>> ELSE Reverse(Tail(s)) \o <<Head(s)>>

----------------------------------------------------------------------------
(* Identifier scheme (lib/idgen) and node model (lib/parser/node) *)

rootMarker == <<>>

getParentId(id) == IF id = <<>> THEN <<>> ELSE SubSeq(id, 1, Len(id) - 1)

\* the absent result of a map lookup
Undefined ==
  [id |-> <<"undefined">>, type |-> "undefined", raw |-> <<>>, childrenKeys |-> <<>>,
   offset |-> 0, length |-> 0, boundOffset |-> 0, boundLength |-> 0]

isIterable(node) == node.type \in {"object", "array"}

hasChildren(node) == node.childrenKeys # <<>>

isRoot(node) == node.id = rootMarker

getChildId(node, key) == Append(node.id, key)

getRawValue(node) == node.raw

\* The node's own array: whoever reorders the array it was handed reorders
\* node.childrenKeys.
getChildrenKeys(node) == node.childrenKeys

computeAndSetBoundLength(node) ==
  [node EXCEPT !.boundLength = node.offset + node.length - node.boundOffset]

----------------------------------------------------------------------------
(* Tree: structural access *)

node(nm, id) == IF id \in DOMAIN nm THEN nm[id] ELSE Undefined

\* this.node(rootMarker); the variant finds no root
root_undefined(nm) == Undefined

root(nm) == node(nm, rootMarker)

\* this.nodeMap[getChildId(node, key)]; the variant looks the bare key up
getChild_keyAsId(nm, n, key) == node(nm, <<key>>)

getChild(nm, n, key) == node(nm, getChildId(n, key))

isGraphNode(n) == isRoot(n) \/ hasChildren(n)

\* the variant takes the two branches the other way round
getGraphNodeId_swapped(nm, nodeId) ==
  IF isGraphNode(node(nm, nodeId)) THEN getParentId(nodeId) ELSE nodeId

getGraphNodeId(nm, nodeId) ==
  IF isGraphNode(node(nm, nodeId)) THEN nodeId ELSE getParentId(nodeId)

----------------------------------------------------------------------------
(* Stringifier *)

SortOptions == {"none", "asc", "desc"}

\* tabWidth 0 stands for "not given"; it is read only when format is on
TabWidths == {0, 1}

Options ==
  {o \in [format : BOOLEAN, sort : SortOptions, tabWidth : TabWidths, pure : BOOLEAN] :
     ~o.format => o.tabWidth = 0}

DefaultOptions == [format |-> FALSE, sort |-> "none", tabWidth |-> 0, pure |-> FALSE]

\* getGenTabsFn(options.tabWidth || 2)(level)
genTabs(options, level) ==
  repeat(" ", (IF options.tabWidth = 0 THEN 2 ELSE options.tabWidth) * level)

\* keys.sort() / keys.sort().reverse(), for objects only
sortKeys(keys, isObject, sort) ==
  IF isObject /\ sort = "asc" THEN SortAsc(keys)
  ELSE IF isObject /\ sort = "desc" THEN Reverse(SortAsc(keys))
  ELSE keys

\* node.childrenKeys once stringifyNode has sorted, in place, the array that
\* getChildrenKeys returned
childrenKeysAfterSort(n, keys) == keys

\* `"${key}":${isFormat ? " " : ""}`
keyPrefix(key, isFormat) ==
  <<"\"", key, "\"", ":">> \o (IF isFormat THEN <<" ">> ELSE <<>>)

\* the fields a leaf receives unless options.pure
setLeafSpan_lengthOnly(n, stringified, offset, boundOffset) ==
  [n EXCEPT !.length = Len(stringified)]

setLeafSpan(n, stringified, offset, boundOffset) ==
  computeAndSetBoundLength(
    [n EXCEPT !.length = Len(stringified), !.offset = offset, !.boundOffset = boundOffset])

RECURSIVE stringifyNode(_, _, _, _, _, _)
RECURSIVE stringifyChildren(_, _, _, _, _, _, _, _)

\* Returns [str, nm]: the emitted text and the node map after the writes.
stringifyNode(nm, id, options, indentLevel, offset, boundOffset) ==
  LET n == nm[id] IN
  IF ~isIterable(n)
  THEN LET stringified == getRawValue(n) IN
       [str |-> stringified,
        nm  |-> IF options.pure THEN nm
                ELSE [nm EXCEPT ![id] = setLeafSpan(n, stringified, offset, boundOffset)]]
  ELSE LET isObject == n.type = "object"
           keys == sortKeys(getChildrenKeys(n), isObject, options.sort)
           nm1 == IF options.pure THEN nm
                  ELSE [nm EXCEPT ![id].boundOffset = boundOffset, ![id].offset = offset]
           nm2 == [nm1 EXCEPT ![id].childrenKeys = childrenKeysAfterSort(n, keys)]
           r == stringifyChildren(nm2, id, keys, 1, options, indentLevel, offset,
                                  IF isObject THEN <<"{">> ELSE <<"[">>)
           stringified == r.str \o (IF isObject THEN <<"}">> ELSE <<"]">>)
       IN [str |-> stringified,
           nm  |-> IF options.pure THEN r.nm
                   ELSE [r.nm EXCEPT ![id] =
                           computeAndSetBoundLength([@ EXCEPT !.length = Len(stringified)])]]

\* the loop over keys[i..], `stringified` being the text emitted so far
stringifyChildren(nm, id, keys, i, options, indentLevel, offset, stringified) ==
  IF i > Len(keys) THEN [str |-> stringified, nm |-> nm]
  ELSE LET isFormat == options.format
           isObject == nm[id].type = "object"
           key == keys[i]
           s1 == IF isFormat
                 THEN stringified \o <<"\n">> \o genTabs(options, indentLevel + 1)
                 ELSE stringified
           childBoundOffset == offset + Len(s1)
           s2 == IF isObject THEN s1 \o keyPrefix(key, isFormat) ELSE s1
           childOffset == offset + Len(s2)
           r == stringifyNode(nm, getChildId(nm[id], key), options, indentLevel + 1,
                              childOffset, childBoundOffset)
           s3 == s2 \o r.str
           s4 == IF i < Len(keys) THEN s3 \o <<",">>
                 ELSE IF isFormat THEN s3 \o <<"\n">> \o genTabs(options, indentLevel)
                 ELSE s3
       IN stringifyChildren(r.nm, id, keys, i + 1, options, indentLevel, offset, s4)

\* root.length = this.text.length, written whatever options.pure says
setRootLength(nm, options, len) == [nm EXCEPT ![rootMarker].length = len]

\* Returns [str, nm] of Tree.stringify: str is both this.text and the result.
stringify(nm, options) ==
  LET r == stringifyNode(nm, rootMarker, options, 0, 0, 0)
  IN [str |-> r.str, nm |-> setRootLength(r.nm, options, Len(r.str))]

----------------------------------------------------------------------------
(* Offset lookup *)

\* !isEmpty(this.errors)
hasError(errs) == errs # <<>>

\* this.root() && !this.hasError(); the variant forgets the errors
valid_rootOnly(nm, errs) == rootMarker \in DOMAIN nm

valid(nm, errs) == rootMarker \in DOMAIN nm /\ ~hasError(errs)

\* (boundLeft, boundRight]; the variant closes the interval on the left
inBound_closedLeft(n, offset) ==
  n.boundOffset <= offset /\ offset <= n.boundOffset + n.boundLength

inBound(n, offset) ==
  n.boundOffset < offset /\ offset <= n.boundOffset + n.boundLength

\* child.boundOffset + child.boundLength < offset: the search goes on to the right
goRight_reversed(child, offset) == child.boundOffset + child.boundLength > offset

goRight(child, offset) == child.boundOffset + child.boundLength < offset

RECURSIVE doFind(_, _, _)
RECURSIVE searchChildren(_, _, _, _, _)

doFind(nm, n, offset) ==
  IF ~inBound(n, offset) THEN Undefined
  ELSE searchChildren(nm, n, offset, 0, Len(getChildrenKeys(n)) - 1)

\* the while loop of doFind over keys[left..right] (zero-based)
searchChildren(nm, n, offset, left, right) ==
  IF left > right THEN n
  ELSE LET mid == (left + right) \div 2
           child == getChild(nm, n, getChildrenKeys(n)[mid + 1])
       IN IF inBound(child, offset)
          THEN LET item == doFind(nm, child, offset)
               IN IF item # Undefined THEN item ELSE child
          ELSE IF goRight(child, offset)
               THEN searchChildren(nm, n, offset, mid + 1, right)
               ELSE searchChildren(nm, n, offset, left, mid - 1)

NotFound == [found |-> FALSE, id |-> <<"undefined">>, type |-> "undefined"]

\* "node" for a graph node, else "value" inside the node's own span, else "key"
resultType_valueFirst(n, offset) ==
  IF n.offset < offset /\ offset <= n.offset + n.length THEN "value"
  ELSE IF isGraphNode(n) THEN "node" ELSE "key"

resultType(n, offset) ==
  IF isGraphNode(n) THEN "node"
  ELSE IF n.offset < offset /\ offset <= n.offset + n.length THEN "value" ELSE "key"

findNodeAtOffset(nm, errs, offset) ==
  IF ~valid(nm, errs) THEN NotFound
  ELSE LET n == doFind(nm, root(nm), offset)
       IN IF n = Undefined THEN NotFound
          ELSE [found |-> TRUE, id |-> n.id, type |-> resultType(n, offset)]

----------------------------------------------------------------------------
(* Patch engine *)

\* jsonc.applyEdits: order of the edits, by offset and then by length
EditBefore(a, b) ==
  a.offset < b.offset \/ (a.offset = b.offset /\ a.length <= b.length)

RECURSIVE InsertEdit(_, _)
InsertEdit(e, s) ==
  IF s = <<>> THEN <<e>>
  ELSE IF EditBefore(e, Head(s)) THEN <<e>> \o s
  ELSE <<Head(s)>> \o InsertEdit(e, Tail(s))

RECURSIVE SortEdits(_)
SortEdits(s) == IF s = <<>> THEN <<>> ELSE InsertEdit(Head(s), SortEdits(Tail(s)))

applyEdit(txt, e) ==
  Slice(txt, 0, e.offset) \o e.content \o Slice(txt, e.offset + e.length, Len(txt))

\* edits applied from the last to the first; [ok, text], ok = FALSE for the
\* "Overlapping edit" error
RECURSIVE applySorted(_, _, _, _)
applySorted(txt, sorted, i, lastModifiedOffset) ==
  IF i < 1 THEN [ok |-> TRUE, text |-> txt]
  ELSE LET e == sorted[i]
       IN IF e.offset + e.length <= lastModifiedOffset
          THEN applySorted(applyEdit(txt, e), sorted, i - 1, e.offset)
          ELSE [ok |-> FALSE, text |-> txt]

applyEdits(txt, edits) ==
  LET sorted == SortEdits(edits) IN applySorted(txt, sorted, Len(sorted), Len(txt))

\* fix offset for successor node of the nest node
shiftNode(n, acc) == [n EXCEPT !.offset = @ + acc, !.boundOffset = @ + acc]

\* fix length for parent of the nest node
growNode(n, d) == [n EXCEPT !.length = @ + d, !.boundLength = @ + d]

\* the size delta an edit adds to acc
editDelta(edit) == Len(edit.content) - edit.length

RECURSIVE fixOffset(_, _, _, _, _, _)
RECURSIVE fixChildren(_, _, _, _, _, _, _, _)

\* Returns [nm, acc, edits].
fixOffset(nm, nest, options, id, acc, edits) ==
  LET n == nm[id] IN
  IF id \in nest
  THEN LET r == stringifyNode(nm, id, options, 0, n.offset + acc, n.boundOffset + acc)
           edit == [offset |-> n.offset, length |-> n.length, content |-> r.str]
       IN [nm |-> r.nm, acc |-> acc + editDelta(edit), edits |-> Append(edits, edit)]
  ELSE LET nm1 == [nm EXCEPT ![id] = shiftNode(n, acc)]
           r == fixChildren(nm1, nest, options, id, getChildrenKeys(n), 1, acc, edits)
       IN [nm |-> [r.nm EXCEPT ![id] = growNode(@, r.acc - acc)],
           acc |-> r.acc, edits |-> r.edits]

\* this.mapChildren(node, fixOffset) over keys[i..]
fixChildren(nm, nest, options, id, keys, i, acc, edits) ==
  IF i > Len(keys) THEN [nm |-> nm, acc |-> acc, edits |-> edits]
  ELSE LET r == fixOffset(nm, nest, options, getChildId(nm[id], keys[i]), acc, edits)
       IN fixChildren(r.nm, nest, options, id, keys, i + 1, r.acc, r.edits)

finishText_noTrim(txt) == txt

finishText(txt) == Trim(txt)

\* Returns [nm, text, threw, edits]; when applyEdits throws, the text is the old one.
stringifyNestNodes(nm, txt, nest, options) ==
  LET r == fixOffset(nm, nest, options, rootMarker, 0, <<>>)
      a == applyEdits(txt, r.edits)
  IN [nm |-> r.nm, text |-> IF a.ok THEN finishText(a.text) ELSE txt,
      threw |-> ~a.ok, edits |-> r.edits]

\* the record of the last call: what was called, with what, and what came back
Call(op, options, offset, ret, result, threw, edits, spans) ==
  [op |-> op, options |-> options, offset |-> offset, ret |-> ret,
   result |-> result, threw |-> threw, edits |-> edits, spans |-> spans,
   arg |-> <<>>]

\* the record of a read-only call with argument arg
Query(op, arg, result, threw, spans) ==
  [Call(op, DefaultOptions, 0, <<>>, result, threw, <<>>, spans) EXCEPT !.arg = arg]

----------------------------------------------------------------------------
(* Trees handed over by the parsing front end *)

Leaf(type, raw) == [type |-> type, raw |-> raw, kids |-> <<>>]
Obj(kids) == [type |-> "object", raw |-> <<>>, kids |-> kids]
Arr(kids) == [type |-> "array", raw |-> <<>>, kids |-> kids]
Kid(key, val) == [key |-> key, val |-> val]

Num1 == Leaf("number", <<"1">>)
Num10 == Leaf("number", <<"1", "0">>)
StrX == Leaf("string", <<"\"", "x", "\"">>)
True == Leaf("boolean", <<"t", "r", "u", "e">>)

\* the JSON values the model parses:
\*   {"a":1}    {"b":10,"a":[true,{"c":"x"}]}    [{"b":{},"a":[1]},"x"]    10
Shapes ==
  << Obj(<<Kid("a", Num1)>>),
     Obj(<<Kid("b", Num10),
           Kid("a", Arr(<<Kid("0", True), Kid("1", Obj(<<Kid("c", StrX)>>))>>))>>),
     Arr(<<Kid("0", Obj(<<Kid("b", Obj(<<>>)), Kid("a", Arr(<<Kid("0", Num1)>>))>>)),
           Kid("1", StrX)>>),
     Num10 >>

RECURSIVE Flatten(_, _)
RECURSIVE FlattenKids(_, _, _)

\* the node map of value v placed at identifier id, all spans still 0
Flatten(v, id) ==
  (id :> [id |-> id, type |-> v.type, raw |-> v.raw,
          childrenKeys |-> [i \in 1..Len(v.kids) |-> v.kids[i].key],
          offset |-> 0, length |-> 0, boundOffset |-> 0, boundLength |-> 0])
  @@ FlattenKids(v.kids, 1, id)

FlattenKids(kids, i, id) ==
  IF i > Len(kids) THEN <<>>
  ELSE Flatten(kids[i].val, Append(id, kids[i].key)) @@ FlattenKids(kids, i + 1, id)

IsPrefix(p, q) == Len(p) <= Len(q) /\ SubSeq(q, 1, Len(p)) = p
IsProperPrefix(p, q) == Len(p) < Len(q) /\ IsPrefix(p, q)

\* the text around the JSON value in the source
Layouts ==
  << [lead |-> <<>>, trail |-> <<>>],
     [lead |-> <<>>, trail |-> <<"\n">>],
     [lead |-> <<" ">>, trail |-> <<"\n">>] >>

RECURSIVE Escape(_)
Escape(s) ==
  IF s = <<>> THEN <<>>
  ELSE (IF Head(s) = "\"" THEN <<"\\", "\"">> ELSE <<Head(s)>>) \o Escape(Tail(s))

\* the string literal whose content is the JSON text s
Literal(s) == <<"\"">> \o Escape(s) \o <<"\"">>

\* an identifier that names no node of any tree of the model
StrayId == <<"c", "c", "c">>

\* The snapshot {nodeMap, text} of a parse of source text that holds shape v
\* in compact form inside layout lay, the nodes of `pending` being nested JSON:
\* in the text each outermost pending node is still the string literal that
\* holds its JSON, in the node map it is the parsed container, its
\* descendants carrying the spans of the nested parse.
ParseResult(v, pending, lay) ==
  LET base == Flatten(v, rootMarker)
      ids == DOMAIN base
      outer == {p \in pending \cap ids : ~\E q \in pending : IsProperPrefix(q, p)}
      top(id) == CHOOSE p \in outer : IsProperPrefix(p, id)
      hidden(id) == \E p \in outer : IsProperPrefix(p, id)
      inner(p) == stringifyNode(base, p, DefaultOptions, 0, 0, 0)
      src == [id \in ids |->
                IF id \in outer
                THEN [base[id] EXCEPT !.type = "string", !.childrenKeys = <<>>,
                                      !.raw = Literal(inner(id).str)]
                ELSE base[id]]
      outerParse == stringifyNode(src, rootMarker, DefaultOptions, 0,
                                  Len(lay.lead), Len(lay.lead))
      span(id) == IF hidden(id) THEN inner(top(id)).nm[id] ELSE outerParse.nm[id]
  IN [nodeMap |-> [id \in ids |->
                     [base[id] EXCEPT !.offset = span(id).offset,
                                      !.length = span(id).length,
                                      !.boundOffset = span(id).boundOffset,
                                      !.boundLength = span(id).boundLength]],
      text |-> lay.lead \o outerParse.str \o lay.trail]

Src(shape, pending, layout) == [shape |-> shape, pending |-> pending, layout |-> layout]

\* the parses the model starts from: a value, its pending nodes, its layout
Sources ==
  << Src(1, {}, 1), Src(1, {}, 2), Src(1, {}, 3), Src(1, {<<>>}, 1),
     Src(2, {}, 1), Src(2, {}, 3), Src(2, {<<"a">>}, 1), Src(2, {<<"a">>}, 3),
     Src(2, {<<"a", "1">>}, 1), Src(2, {<<"a">>, <<"a", "1">>}, 1),
     Src(2, {StrayId}, 2),
     Src(3, {}, 1), Src(3, {<<"0">>}, 2), Src(3, {<<"0", "b">>}, 1),
     Src(3, {<<"0", "b">>, <<"0", "a">>}, 1), Src(3, {<<"0", "b">>, <<"0", "a">>}, 3),
     Src(4, {}, 1), Src(4, {}, 3) >>

----------------------------------------------------------------------------
(* State machine *)

Init ==
  \E s \in DOMAIN Sources :
    LET t == ParseResult(Shapes[Sources[s].shape], Sources[s].pending,
                         Layouts[Sources[s].layout])
    IN /\ nodeMap = t.nodeMap
       /\ text = t.text
       /\ nestNodeMap = Sources[s].pending
       /\ errors = <<>>
       /\ ops = 0
       /\ last = Call("parse", DefaultOptions, 0, <<>>, NotFound, FALSE, <<>>, "parse")
       /\ EditorIdle

\* tree.stringify(options)
Stringify(options) ==
  LET r == stringify(nodeMap, options)
  IN /\ ops < MaxOps
     /\ ops' = ops + 1
     /\ nodeMap' = r.nm
     /\ text' = r.str
     /\ last' = Call("stringify", options, 0, r.str, NotFound, FALSE, <<>>,
                      IF options.pure THEN last.spans ELSE "stringify")
     /\ UNCHANGED <<nestNodeMap, errors, editorVars>>

\* tree.stringifyNestNodes(options)
StringifyNestNodes(options) ==
  LET r == stringifyNestNodes(nodeMap, text, nestNodeMap, options)
  IN /\ ops < MaxOps
     /\ ops' = ops + 1
     /\ nodeMap' = r.nm
     /\ text' = r.text
     /\ last' = Call("stringifyNestNodes", options, 0, <<>>, NotFound, r.threw,
                      r.edits, "patch")
     /\ UNCHANGED <<nestNodeMap, errors, editorVars>>

\* tree.findNodeAtOffset(offset)
FindNodeAtOffset(offset) ==
  /\ last' = Call("findNodeAtOffset", DefaultOptions, offset, <<>>,
                   findNodeAtOffset(nodeMap, errors, offset), FALSE, <<>>, last.spans)
  /\ UNCHANGED <<nodeMap, text, nestNodeMap, errors, ops, editorVars>>

\* the stringifier and the patch engine at work on a parsed tree
Next ==
  \/ \E options \in Options : Stringify(options)
  \/ \E options \in Options : StringifyNestNodes(options)

Spec == Init /\ [][Next]_vars

\* offset lookups on a parsed tree and on the trees stringify leaves
NextFind ==
  \/ \E options \in Options : ~options.pure /\ Stringify(options)
  \/ \E offset \in 0..(Len(text) + MaxProbe) : FindNodeAtOffset(offset)

SpecFind == Init /\ [][NextFind]_vars

----------------------------------------------------------------------------
(* Structural equality and materialization *)

\* lodash union: the elements of a, then those of b that a does not hold
RECURSIVE union(_, _)
union(a, b) ==
  IF b = <<>> THEN a
  ELSE union(IF \E i \in 1..Len(a) : a[i] = Head(b) THEN a ELSE Append(a, Head(b)),
             Tail(b))

\* node1.type !== node2.type
typeDiffers_iterableOnly(node1, node2) == isIterable(node1) # isIterable(node2)

typeDiffers(node1, node2) == node1.type # node2.type

\* union(getChildrenKeys(node1), getChildrenKeys(node2))
unionKeys_firstOnly(node1, node2) == getChildrenKeys(node1)

unionKeys(node1, node2) == union(getChildrenKeys(node1), getChildrenKeys(node2))

\* getRawValue(node1) === getRawValue(node2)
leafEquals_wholeNode(node1, node2) == node1 = node2

leafEquals(node1, node2) == getRawValue(node1) = getRawValue(node2)

RECURSIVE doIsEquals(_, _, _, _)
doIsEquals(nm1, nm2, node1, node2) ==
  IF typeDiffers(node1, node2) THEN FALSE
  ELSE LET keys == unionKeys(node1, node2)
       IN IF Len(keys) = 0 THEN leafEquals(node1, node2)
          ELSE \A i \in 1..Len(keys) :
                 LET child1 == getChild(nm1, node1, keys[i])
                     child2 == getChild(nm2, node2, keys[i])
                 IN /\ child1 # Undefined
                    /\ child2 # Undefined
                    /\ doIsEquals(nm1, nm2, child1, child2)

isEquals(nm1, nm2) == doIsEquals(nm1, nm2, root(nm1), root(nm2))

\* the characters of a string token without its quotes and escapes
RECURSIVE Unescape(_)
Unescape(s) ==
  IF s = <<>> THEN <<>>
  ELSE IF Head(s) = "\\" /\ Len(s) >= 2 THEN <<s[2]>> \o Unescape(SubSeq(s, 3, Len(s)))
  ELSE <<Head(s)>> \o Unescape(Tail(s))

\* a number token without the zeros that end its fraction
RECURSIVE StripFraction(_)
StripFraction(s) ==
  IF \E i \in 1..Len(s) : s[i] = "."
  THEN IF s[Len(s)] \in {"0", "."} THEN StripFraction(SubSeq(s, 1, Len(s) - 1)) ELSE s
  ELSE s

\* node.value: the decoded scalar of a leaf
nodeValue(n) ==
  IF n.type = "string" THEN Unescape(SubSeq(n.raw, 2, Len(n.raw) - 1))
  ELSE IF n.type = "number" THEN StripFraction(n.raw)
  ELSE n.raw

\* Tree.toJSON: a leaf gives its value, an object a map from key to value,
\* an array the values in childrenKeys order (keyed by position)
RECURSIVE toJSON(_, _)
toJSON(nm, id) ==
  LET n == nm[id]
      keys == getChildrenKeys(n)
  IN IF ~isIterable(n) THEN [type |-> n.type, value |-> nodeValue(n)]
     ELSE IF n.type = "object"
     THEN [type |-> "object",
           members |-> [k \in {keys[i] : i \in 1..Len(keys)} |->
                          toJSON(nm, getChildId(n, k))]]
     ELSE [type |-> "array",
           items |-> [i \in 1..Len(keys) |-> toJSON(nm, getChildId(n, keys[i]))]]

----------------------------------------------------------------------------
(* The parsing front end (lib/parser/parse): text to {nodeMap, errors} *)

DigitChars == <<"0", "1", "2", "3", "4", "5", "6", "7", "8", "9">>

IsDigit(c) == \E i \in 1..Len(DigitChars) : DigitChars[i] = c

\* the character at offset pos, "" past the end
CharAt(s, pos) == IF pos >= 0 /\ pos < Len(s) THEN s[pos + 1] ELSE ""

RECURSIVE SkipWS(_, _)
SkipWS(s, pos) == IF CharAt(s, pos) \in WS THEN SkipWS(s, pos + 1) ELSE pos

\* the offset just after the string token's closing quote, scanning from the
\* offset after its opening quote; -1 when the token never closes
RECURSIVE StringEnd(_, _)
StringEnd(s, pos) ==
  IF pos >= Len(s) THEN -1
  ELSE IF CharAt(s, pos) = "\\" THEN StringEnd(s, pos + 2)
  ELSE IF CharAt(s, pos) = "\"" THEN pos + 1
  ELSE StringEnd(s, pos + 1)

RECURSIVE NumberEnd(_, _)
NumberEnd(s, pos) ==
  IF IsDigit(CharAt(s, pos)) \/ CharAt(s, pos) = "." THEN NumberEnd(s, pos + 1) ELSE pos

ParseFail == [ok |-> FALSE, pos |-> 0, nm |-> <<>>]

\* a node as the parser records it
NewNode(id, type, raw, keys, offset, end, boundOffset) ==
  [id |-> id, type |-> type, raw |-> raw, childrenKeys |-> keys,
   offset |-> offset, length |-> end - offset,
   boundOffset |-> boundOffset, boundLength |-> end - boundOffset]

RECURSIVE parseValue(_, _, _, _)
RECURSIVE parseMembers(_, _, _, _, _, _, _)
RECURSIVE parseItems(_, _, _, _, _, _, _)

\* The value that starts at offset pos (whitespace already skipped), stored
\* at identifier id with its bound starting at boundOffset.
\* Returns [ok, pos, nm]: pos is the offset after the value.
parseValue(s, pos, id, boundOffset) ==
  LET c == CharAt(s, pos) IN
  IF c = "{" THEN parseMembers(s, pos + 1, id, pos, boundOffset, <<>>, <<>>)
  ELSE IF c = "[" THEN parseItems(s, pos + 1, id, pos, boundOffset, <<>>, <<>>)
  ELSE IF c = "\""
  THEN LET e == StringEnd(s, pos + 1)
       IN IF e < 0 THEN ParseFail
          ELSE [ok |-> TRUE, pos |-> e,
                nm |-> (id :> NewNode(id, "string", Slice(s, pos, e), <<>>, pos, e,
                                      boundOffset))]
  ELSE IF IsDigit(c)
  THEN LET e == NumberEnd(s, pos)
       IN [ok |-> TRUE, pos |-> e,
           nm |-> (id :> NewNode(id, "number", Slice(s, pos, e), <<>>, pos, e,
                                 boundOffset))]
  ELSE IF Slice(s, pos, pos + 4) = <<"t", "r", "u", "e">>
  THEN [ok |-> TRUE, pos |-> pos + 4,
        nm |-> (id :> NewNode(id, "boolean", Slice(s, pos, pos + 4), <<>>, pos,
                              pos + 4, boundOffset))]
  ELSE ParseFail

\* the members of the object opened at offset start, from offset pos on
parseMembers(s, pos, id, start, boundOffset, keys, nm) ==
  LET p == SkipWS(s, pos) IN
  IF CharAt(s, p) = "}" /\ keys = <<>>
  THEN [ok |-> TRUE, pos |-> p + 1,
        nm |-> (id :> NewNode(id, "object", <<>>, keys, start, p + 1, boundOffset))]
  ELSE IF CharAt(s, p) # "\"" THEN ParseFail
  ELSE LET ke == StringEnd(s, p + 1)
           key == IF ke < 0 THEN <<>> ELSE Unescape(Slice(s, p + 1, ke - 1))
           colon == SkipWS(s, ke)
       IN IF ke < 0 \/ Len(key) # 1 \/ CharAt(s, colon) # ":" THEN ParseFail
          ELSE LET r == parseValue(s, SkipWS(s, colon + 1), Append(id, key[1]), p)
                   q == SkipWS(s, r.pos)
                   keys1 == union(keys, key)
                   nm1 == r.nm @@ nm
               IN IF ~r.ok THEN ParseFail
                  ELSE IF CharAt(s, q) = ","
                  THEN parseMembers(s, q + 1, id, start, boundOffset, keys1, nm1)
                  ELSE IF CharAt(s, q) = "}"
                  THEN [ok |-> TRUE, pos |-> q + 1,
                        nm |-> (id :> NewNode(id, "object", <<>>, keys1, start, q + 1,
                                              boundOffset)) @@ nm1]
                  ELSE ParseFail

\* the items of the array opened at offset start, from offset pos on
parseItems(s, pos, id, start, boundOffset, keys, nm) ==
  LET p == SkipWS(s, pos) IN
  IF CharAt(s, p) = "]" /\ keys = <<>>
  THEN [ok |-> TRUE, pos |-> p + 1,
        nm |-> (id :> NewNode(id, "array", <<>>, keys, start, p + 1, boundOffset))]
  ELSE IF Len(keys) >= Len(DigitChars) THEN ParseFail
  ELSE LET key == DigitChars[Len(keys) + 1]
           r == parseValue(s, p, Append(id, key), p)
           q == SkipWS(s, r.pos)
           keys1 == Append(keys, key)
           nm1 == r.nm @@ nm
       IN IF ~r.ok THEN ParseFail
          ELSE IF CharAt(s, q) = ","
          THEN parseItems(s, q + 1, id, start, boundOffset, keys1, nm1)
          ELSE IF CharAt(s, q) = "]"
          THEN [ok |-> TRUE, pos |-> q + 1,
                nm |-> (id :> NewNode(id, "array", <<>>, keys1, start, q + 1,
                                      boundOffset)) @@ nm1]
          ELSE ParseFail

\* parseJSON(text): {nodeMap, text, errors}; on malformed text the errors are
\* not empty
parseJSON(s) ==
  LET p == SkipWS(s, 0)
      r == parseValue(s, p, rootMarker, p)
      ok == r.ok /\ SkipWS(s, r.pos) = Len(s)
  IN [nodeMap |-> IF r.ok THEN r.nm ELSE <<>>,
      text |-> s,
      errors |-> IF ok THEN <<>> ELSE <<"error">>]

----------------------------------------------------------------------------
(* Equality and round trip: the state machine *)

RECURSIVE SourceOf(_)
RECURSIVE SourceOfKids(_, _, _)

\* the compact JSON text of value v, as its author writes it
SourceOf(v) ==
  IF v.type = "object" THEN <<"{">> \o SourceOfKids(v.kids, 1, TRUE) \o <<"}">>
  ELSE IF v.type = "array" THEN <<"[">> \o SourceOfKids(v.kids, 1, FALSE) \o <<"]">>
  ELSE v.raw

SourceOfKids(kids, i, isObject) ==
  IF i > Len(kids) THEN <<>>
  ELSE (IF i > 1 THEN <<",">> ELSE <<>>)
       \o (IF isObject THEN Literal(<<kids[i].key>>) \o <<":">> ELSE <<>>)
       \o SourceOf(kids[i].val)
       \o SourceOfKids(kids, i + 1, isObject)

Num1p0 == Leaf("number", <<"1", ".", "0">>)
Str1 == Leaf("string", <<"\"", "1", "\"">>)

\* the JSON values compared with one another:
\*   {"a":1,"b":10}   {"b":10,"a":1}   {"a":1}   {"a":1.0,"b":10}
\*   {"a":{},"b":[1,"x"]}   {"a":[],"b":[1,"x"]}
\*   {"b":[{"c":true,"a":"x"}],"a":1}   {"a":1,"b":[{"a":"x","c":true}]}
\*   {"\"":1}   {"a":"1","b":10}   1   1.0   "1"
EqValues ==
  << Obj(<<Kid("a", Num1), Kid("b", Num10)>>),
     Obj(<<Kid("b", Num10), Kid("a", Num1)>>),
     Obj(<<Kid("a", Num1)>>),
     Obj(<<Kid("a", Num1p0), Kid("b", Num10)>>),
     Obj(<<Kid("a", Obj(<<>>)), Kid("b", Arr(<<Kid("0", Num1), Kid("1", StrX)>>))>>),
     Obj(<<Kid("a", Arr(<<>>)), Kid("b", Arr(<<Kid("0", Num1), Kid("1", StrX)>>))>>),
     Obj(<<Kid("b", Arr(<<Kid("0", Obj(<<Kid("c", True), Kid("a", StrX)>>))>>)),
           Kid("a", Num1)>>),
     Obj(<<Kid("a", Num1),
           Kid("b", Arr(<<Kid("0", Obj(<<Kid("a", StrX), Kid("c", True)>>))>>))>>),
     Obj(<<Kid("\"", Num1)>>),
     Obj(<<Kid("a", Str1), Kid("b", Num10)>>),
     Num1, Num1p0, Str1 >>

\* the tree parsed from value v written inside layout lay
ParsedValue(v, lay) == parseJSON(lay.lead \o SourceOf(v) \o lay.trail)

\* the second tree of a comparison: value o parsed from a text that starts
\* with a space
OtherTree(o) == ParsedValue(EqValues[o], Layouts[3]).nodeMap

InitEq ==
  \E v \in DOMAIN EqValues, l \in {1, 3} :
    LET t == ParsedValue(EqValues[v], Layouts[l])
    IN /\ nodeMap = t.nodeMap
       /\ text = t.text
       /\ errors = t.errors
       /\ nestNodeMap = {}
       /\ ops = 0
       /\ last = Call("parse", DefaultOptions, 0, <<>>, NotFound, FALSE, <<>>, "parse")
       /\ EditorIdle

\* isEquals(tree, other), or isEquals(other, tree) when swapped
IsEquals(o, swapped) ==
  /\ last' = Query("isEquals", [other |-> o, swapped |-> swapped],
                   IF swapped THEN isEquals(OtherTree(o), nodeMap)
                   ELSE isEquals(nodeMap, OtherTree(o)),
                   FALSE, last.spans)
  /\ UNCHANGED <<nodeMap, text, nestNodeMap, errors, ops, editorVars>>

\* parseJSON(text) of the text a stringify call just returned
Reparse ==
  /\ last.op = "stringify"
  /\ last' = [Query("parseJSON", parseJSON(last.ret), NotFound, FALSE, last.spans)
                EXCEPT !.options = last.options, !.ret = last.ret]
  /\ UNCHANGED <<nodeMap, text, nestNodeMap, errors, ops, editorVars>>

\* stringify calls made on a tree before it is compared or parsed back
MaxEqOps == 1

NextEq ==
  \/ \E options \in Options : ops < MaxEqOps /\ Stringify(options)
  \/ \E o \in DOMAIN EqValues, swapped \in BOOLEAN : IsEquals(o, swapped)
  \/ Reparse

SpecEq == InitEq /\ [][NextEq]_vars

----------------------------------------------------------------------------
(* Path lookup: findNodeByPath(pathString) *)

PathFail == [ok |-> FALSE, segs |-> <<>>]

KeySeg(key) == [kind |-> "key", key |-> key]
IndexSeg(key) == [kind |-> "index", key |-> key]

\* the first position from i on that holds "." or "[", Len(s) + 1 if none
RECURSIVE BareEnd(_, _)
BareEnd(s, i) ==
  IF i > Len(s) \/ s[i] \in {".", "["} THEN i ELSE BareEnd(s, i + 1)

\* the first position from i on that holds c and is followed by "]", 0 if none
RECURSIVE BracketEnd(_, _, _)
BracketEnd(s, i, c) ==
  IF i >= Len(s) THEN 0
  ELSE IF s[i] = c /\ s[i + 1] = "]" THEN i
  ELSE BracketEnd(s, i + 1, c)

\* the first position from i on that holds "]", 0 if none
RECURSIVE IndexEnd(_, _)
IndexEnd(s, i) ==
  IF i > Len(s) THEN 0 ELSE IF s[i] = "]" THEN i ELSE IndexEnd(s, i + 1)

\* the segments of s: ".key", "[index]" and "[\"key\"]"; a bare key only
\* where `first` allows it
RECURSIVE parseSegments(_, _)
parseSegments(s, first) ==
  LET then(seg, rest) ==
        LET r == parseSegments(rest, FALSE)
        IN IF r.ok THEN [ok |-> TRUE, segs |-> <<seg>> \o r.segs] ELSE PathFail
  IN IF s = <<>> THEN [ok |-> TRUE, segs |-> <<>>]
     ELSE IF Head(s) = "["
     THEN IF Len(s) >= 2 /\ s[2] = "\""
          THEN LET e == BracketEnd(s, 3, "\"")
               IN IF e = 0 THEN PathFail
                  ELSE then(KeySeg(SubSeq(s, 3, e - 1)), SubSeq(s, e + 2, Len(s)))
          ELSE LET e == IndexEnd(s, 2)
                   digits == SubSeq(s, 2, e - 1)
               IN IF e = 0 \/ digits = <<>> \/ \E i \in 1..Len(digits) : ~IsDigit(digits[i])
                  THEN PathFail
                  ELSE then(IndexSeg(digits), SubSeq(s, e + 1, Len(s)))
     ELSE IF Head(s) # "." /\ ~first THEN PathFail
     ELSE LET start == IF Head(s) = "." THEN 2 ELSE 1
              e == BareEnd(s, start)
              key == SubSeq(s, start, e - 1)
          IN IF key = <<>> THEN PathFail
             ELSE then(KeySeg(key), SubSeq(s, e, Len(s)))

\* the segments of a path expression, after the optional root marker "$"
parsePath(path) ==
  IF path # <<>> /\ Head(path) = "$" THEN parseSegments(Tail(path), FALSE)
  ELSE parseSegments(path, TRUE)

\* from node n along segs[i..], calling getChild per segment.  No key of the
\* model has more than one character, so a longer segment names no child.
RECURSIVE walkPath(_, _, _, _)
walkPath(nm, n, segs, i) ==
  IF i > Len(segs) THEN n
  ELSE IF ~isIterable(n) THEN Undefined
  ELSE IF segs[i].kind = "index" /\ n.type # "array" THEN Undefined
  ELSE IF segs[i].kind = "key" /\ n.type # "object" THEN Undefined
  ELSE IF Len(segs[i].key) # 1 THEN Undefined
  ELSE LET child == getChild(nm, n, segs[i].key[1])
       IN IF child = Undefined THEN Undefined ELSE walkPath(nm, child, segs, i + 1)

\* Returns [found, id] of the node the path names
findNodeByPath(nm, path) ==
  LET p == parsePath(path)
      n == IF p.ok /\ root(nm) # Undefined THEN walkPath(nm, root(nm), p.segs, 1)
           ELSE Undefined
  IN [found |-> n # Undefined, id |-> n.id]

\* the characters a key must not hold to be written bare
SpecialKeyChars == {".", "[", "]", "\""}

\* the path expression of identifier id in tree nm, every segment led by its
\* separator: .key, [index] or ["key"]
RECURSIVE RelPath(_, _, _)
RelPath(nm, id, i) ==
  IF i > Len(id) THEN <<>>
  ELSE LET parent == node(nm, SubSeq(id, 1, i - 1))
           seg == IF parent.type = "array" THEN <<"[", id[i], "]">>
                  ELSE IF id[i] \in SpecialKeyChars THEN <<"[", "\"", id[i], "\"", "]">>
                  ELSE <<".", id[i]>>
       IN seg \o RelPath(nm, id, i + 1)

\* the path expression as written: with the root marker, or without it and
\* without the leading dot
PathOf(nm, id, dollar) ==
  LET rel == RelPath(nm, id, 1)
  IN IF dollar THEN <<"$">> \o rel
     ELSE IF rel # <<>> /\ Head(rel) = "." THEN Tail(rel) ELSE rel

\* what a path is made to continue with: nothing, one more segment of a known
\* kind and key, or text that is no segment
Ext(txt, kind, key) == [text |-> txt, kind |-> kind, key |-> key]

Exts ==
  { Ext(<<>>, "none", ""),
    Ext(<<".", "a">>, "key", "a"),
    Ext(<<".", "z">>, "key", "z"),
    Ext(<<".", "0">>, "key", "0"),
    Ext(<<"[", "0", "]">>, "index", "0"),
    Ext(<<"[", "5", "]">>, "index", "5"),
    Ext(<<"[", "\"", ".", "\"", "]">>, "key", "."),
    Ext(<<"[">>, "malformed", ""),
    Ext(<<".">>, "malformed", "") }

\* the JSON values looked into, beside Shapes:
\*   {".":{"a":1},"[":[10]}    {"0":"x","a":{}}
QueryValues ==
  Shapes \o
  << Obj(<<Kid(".", Obj(<<Kid("a", Num1)>>)), Kid("[", Arr(<<Kid("0", Num10)>>))>>),
     Obj(<<Kid("0", StrX), Kid("a", Obj(<<>>))>>) >>

\* the texts parsed: each value, each value followed by a stray bracket, a text
\* that stops after its first bracket, and the empty text
QueryTexts ==
  {SourceOf(QueryValues[v]) : v \in DOMAIN QueryValues}
    \cup {SourceOf(QueryValues[v]) \o <<"}">> : v \in DOMAIN QueryValues}
    \cup {<<"{">>, <<>>}

\* new Tree(): no node, no text, no errors
EmptyTree == [nodeMap |-> <<>>, text |-> <<>>, errors |-> <<>>]

InitQuery ==
  \E t \in {parseJSON(s) : s \in QueryTexts} \cup {EmptyTree} :
    /\ nodeMap = t.nodeMap
    /\ text = t.text
    /\ errors = t.errors
    /\ nestNodeMap = {}
    /\ ops = 0
    /\ last = Call("parse", DefaultOptions, 0, <<>>, NotFound, FALSE, <<>>, "parse")
    /\ EditorIdle

\* tree.findNodeByPath(path), path being the path expression of base, with or
\* without the root marker, continued by ext
FindNodeByPath(base, dollar, ext) ==
  LET path == PathOf(nodeMap, base, dollar) \o ext.text
  IN /\ last' = Query("findNodeByPath",
                      [path |-> path, base |-> base, dollar |-> dollar, ext |-> ext],
                      findNodeByPath(nodeMap, path), FALSE, last.spans)
     /\ UNCHANGED <<nodeMap, text, nestNodeMap, errors, ops, editorVars>>

\* tree.getGraphNodeId(nodeId) for an identifier the tree holds
GetGraphNodeId(nodeId) ==
  /\ nodeId \in DOMAIN nodeMap
  /\ last' = Query("getGraphNodeId", nodeId, getGraphNodeId(nodeMap, nodeId), FALSE,
                   last.spans)
  /\ UNCHANGED <<nodeMap, text, nestNodeMap, errors, ops, editorVars>>

\* lookups on parsed trees, valid or not
NextQuery ==
  \/ \E base \in DOMAIN nodeMap \cup {rootMarker}, dollar \in BOOLEAN, ext \in Exts :
       FindNodeByPath(base, dollar, ext)
  \/ \E nodeId \in DOMAIN nodeMap : GetGraphNodeId(nodeId)
  \/ \E offset \in 0..(Len(text) + MaxProbe) : FindNodeAtOffset(offset)

SpecQuery == InitQuery /\ [][NextQuery]_vars

----------------------------------------------------------------------------
(* Folding ranges: CustomFoldingRangeProvider *)

\* model.getPositionAt(offset): the 1-based line and column of a 0-based
\* offset, lines ending at "\n"; an offset past the end is the end
getPositionAt(txt, offset) ==
  LET off == Max(0, Min(offset, Len(txt)))
      breaks == {i \in 1..off : txt[i] = "\n"}
      lineStart == IF breaks = {} THEN 0
                   ELSE CHOOSE i \in breaks : \A j \in breaks : j <= i
  IN [lineNumber |-> Cardinality(breaks) + 1, column |-> off - lineStart + 1]

\* what getTree() hands to the provider: the editor's tree, nothing, or an
\* object that says it is valid and has no nodeMap
TreeInputs == {"tree", "undefined", "noNodeMap"}

getTree(input, nm, errs) ==
  [present |-> input # "undefined",
   hasNodeMap |-> input = "tree",
   isValid |-> IF input = "tree" THEN valid(nm, errs) ELSE input = "noNodeMap",
   nodeMap |-> IF input = "tree" THEN nm ELSE <<>>]

\* !tree || !tree.valid() || !tree.nodeMap, negated; the variant asks only
\* for a tree with a nodeMap
usable_unchecked(tree) == tree.present /\ tree.hasNodeMap

usable(tree) == tree.present /\ tree.isValid /\ tree.hasNodeMap

\* an object or array with at least one child
isFoldable(n) == n.type \in {"object", "array"} /\ Len(n.childrenKeys) > 0

\* the line the range of node n ends on
endLineNumber(n, txt) ==
  LET startPosition == getPositionAt(txt, n.offset)
      endPositionCandidate == getPositionAt(txt, n.offset + n.length - 1)
  IN IF endPositionCandidate.column = 1 /\ n.length > 1
     THEN Max(startPosition.lineNumber, endPositionCandidate.lineNumber - 1)
     ELSE endPositionCandidate.lineNumber

\* startPosition.lineNumber < endLineNumber; the variant lets them be equal
spansLines_orEqual(startLine, endLine) == startLine <= endLine

spansLines(startLine, endLine) == startLine < endLine

\* "{...} // 2 items"
collapsedText(n) ==
  [bracket |-> IF n.type = "object" THEN "{...}" ELSE "[...]",
   count |-> Len(n.childrenKeys),
   itemLabel |-> IF Len(n.childrenKeys) = 1 THEN "item" ELSE "items"]

\* The ranges pushed for the tree and the model text txt, and the nodes the
\* loop read.  Each range carries the identifier of the node it was pushed
\* for (nodeId), which the program's range object does not hold.
provideFoldingRanges(tree, txt) ==
  IF ~usable(tree) THEN [ranges |-> {}, visited |-> {}]
  ELSE
    LET nm == tree.nodeMap
        startLine(id) == getPositionAt(txt, nm[id].offset).lineNumber
    IN [ranges |->
          {[nodeId |-> id, start |-> startLine(id), end |-> endLineNumber(nm[id], txt),
            kind |-> "region", collapsedText |-> collapsedText(nm[id])] :
             id \in {i \in DOMAIN nm :
                       /\ isFoldable(nm[i])
                       /\ spansLines(startLine(i), endLineNumber(nm[i], txt))}},
        visited |-> DOMAIN nm]

\* texts laid out by hand:
\*   { "a": [1],      {"a":[      {"a":[1      [1,
\*     "b": { "c": 1                ]          10]
\*     }              ]}          }
\*   }
\* and the last of them followed by a stray x
FoldTexts ==
  { <<"{", " ", "\"", "a", "\"", ":", " ", "[", "1", "]", ",", "\n",
      " ", " ", "\"", "b", "\"", ":", " ", "{", " ", "\"", "c", "\"", ":", " ", "1", "\n",
      " ", " ", "}", "\n",
      "}">>,
    <<"{", "\"", "a", "\"", ":", "[", "\n", "\n", "]", "}">>,
    <<"{", "\"", "a", "\"", ":", "[", "1", "\n", "]", "\n", "}">>,
    <<"[", "1", ",", "\n", "1", "0", "]">>,
    <<"[", "1", ",", "\n", "1", "0", "]", "x">> }

InitFold ==
  \E t \in {parseJSON(s) : s \in FoldTexts \cup QueryTexts} \cup {EmptyTree} :
    /\ nodeMap = t.nodeMap
    /\ text = t.text
    /\ errors = t.errors
    /\ nestNodeMap = {}
    /\ ops = 0
    /\ last = Call("parse", DefaultOptions, 0, <<>>, NotFound, FALSE, <<>>, "parse")
    /\ EditorIdle

\* provider.provideFoldingRanges(model), the model holding the tree's text
ProvideFoldingRanges(input) ==
  /\ last' = Query("provideFoldingRanges", input,
                   provideFoldingRanges(getTree(input, nodeMap, errors), text),
                   FALSE, last.spans)
  /\ UNCHANGED <<nodeMap, text, nestNodeMap, errors, ops, editorVars>>

\* formatting steps of a valid tree before the provider is asked
MaxFoldOps == 1

\* the provider asked for the ranges of parsed and of re-serialized trees
NextFold ==
  \/ \E options \in Options :
       /\ ops < MaxFoldOps
       /\ valid(nodeMap, errors)
       /\ ~options.pure
       /\ Stringify(options)
  \/ \E input \in TreeInputs : ProvideFoldingRanges(input)

SpecFold == InitFold /\ [][NextFold]_vars

----------------------------------------------------------------------------
(* The main editor: content changes, pastes, debounced and direct parses *)

\* worker().parseAndFormat(text, options): the snapshot parsed from the text,
\* serialized again when options.format is set and the parse is valid
parseAndFormat(txt, format) ==
  LET t == parseJSON(txt)
  IN IF format /\ valid(t.nodeMap, t.errors)
     THEN LET r == stringify(t.nodeMap, [DefaultOptions EXCEPT !.format = TRUE])
          IN [nodeMap |-> r.nm, text |-> r.str, errors |-> t.errors]
     ELSE t

\* the EditorWrapper of the main editor with what its handlers read and write
Wrapper ==
  [tree |-> [nodeMap |-> nodeMap, text |-> text, errors |-> errors],
   value |-> editorValue,
   delay |-> delayParseAndSet,
   worker |-> worker]

\* delayParseAndSet.cancel(); the variant leaves the timer alone
cancel_forgotten(w) == w

cancel(w) == [w EXCEPT !.delay = <<>>]

\* delayParseAndSet(text, {format: false}, false): one pending invocation,
\* holding the latest arguments
schedule(w, txt) == [w EXCEPT !.delay = <<[text |-> txt, format |-> FALSE]>>]

\* parseAndSet up to its await: the text is sent to the worker
parseAndSet(w, txt, format) ==
  [w EXCEPT !.worker.calls = Append(@, [text |-> txt, format |-> format]),
            !.worker.pending = @ \cup {Len(w.worker.calls) + 1}]

\* the onDidChangeModelContent handler
onDidChangeModelContent(w) ==
  IF w.value # w.tree.text THEN schedule(cancel(w), w.value) ELSE w

\* the onDidPaste handler; full: the pasted range is the whole model
onDidPaste(w, full) ==
  IF Len(w.value) > 0 /\ full
  THEN parseAndSet(cancel([w EXCEPT !.tree.text = w.value]), w.value, status.format)
  ELSE w

\* setTree: this.tree is assigned, then the edit replaces the content and
\* raises the change event; the variant edits before it assigns
setTree_editFirst(w, treeObject) ==
  [onDidChangeModelContent([w EXCEPT !.value = treeObject.text])
     EXCEPT !.tree = treeObject]

setTree(w, treeObject) ==
  onDidChangeModelContent([w EXCEPT !.tree = treeObject, !.value = treeObject.text])

\* the texts typed, pasted and dropped:  {"a":1}   [1]   {
EditorTexts ==
  { <<"{", "\"", "a", "\"", ":", "1", "}">>, <<"[", "1", "]">>, <<"{">> }

\* user events on the editor
MaxEdits == 3
\* parseAndFormat calls sent to the worker
MaxCalls == 4

InitEditor ==
  /\ nodeMap = EmptyTree.nodeMap
  /\ text = EmptyTree.text
  /\ errors = EmptyTree.errors
  /\ nestNodeMap = {}
  /\ ops = 0
  /\ last = Call("new", DefaultOptions, 0, <<>>, NotFound, FALSE, <<>>, "parse")
  /\ editorValue = <<>>
  /\ delayParseAndSet = <<>>
  /\ worker = [calls |-> <<>>, pending |-> {}]
  /\ \E format \in BOOLEAN :
       status = [format |-> format, enableSyncScroll |-> FALSE,
                 enableSyncFold |-> FALSE, lastFoldAction |-> NoFoldAction]
  /\ scrolling = [k \in Kinds |-> 0]
  /\ scrollEvents = <<>>
  /\ folding = [collapsed |-> [k \in Kinds |-> {}],
                cursor |-> [k \in Kinds |-> "none"],
                events |-> [k \in Kinds |-> 0],
                effects |-> [k \in Kinds |-> <<>>],
                published |-> 0]

\* the wrapper w written back
Install(w, op, arg) ==
  /\ nodeMap' = w.tree.nodeMap
  /\ text' = w.tree.text
  /\ errors' = w.tree.errors
  /\ editorValue' = w.value
  /\ delayParseAndSet' = w.delay
  /\ worker' = w.worker
  /\ last' = Query(op, arg, NotFound, FALSE, "parse")
  /\ UNCHANGED <<nestNodeMap, status, scrolling, scrollEvents, folding>>

\* the user edits the content into txt
Type(txt) ==
  /\ ops < MaxEdits
  /\ txt # editorValue
  /\ ops' = ops + 1
  /\ Install(onDidChangeModelContent([Wrapper EXCEPT !.value = txt]), "type", txt)

\* the user pastes and the content becomes txt; the change event and the
\* paste event are raised in either order
Paste(txt, full, changeFirst) ==
  LET w == [Wrapper EXCEPT !.value = txt]
  IN /\ ops < MaxEdits
     /\ Len(worker.calls) < MaxCalls
     /\ full \/ txt # editorValue
     /\ ops' = ops + 1
     /\ Install(IF changeFirst THEN onDidPaste(onDidChangeModelContent(w), full)
                ELSE onDidChangeModelContent(onDidPaste(w, full)),
                "onDidPaste",
                [text |-> txt, full |-> full, changeFirst |-> changeFirst,
                 hadTimer |-> delayParseAndSet # <<>>])

\* a file holding txt is dropped on the editor
DropFile(txt) ==
  /\ ops < MaxEdits
  /\ Len(worker.calls) < MaxCalls
  /\ ops' = ops + 1
  /\ Install(parseAndSet(Wrapper, txt, status.format), "drop", txt)

\* parseWait has passed since the last invocation of delayParseAndSet
DebounceFires ==
  /\ delayParseAndSet # <<>>
  /\ Len(worker.calls) < MaxCalls
  /\ ops' = ops
  /\ Install(parseAndSet([Wrapper EXCEPT !.delay = <<>>], delayParseAndSet[1].text,
                         delayParseAndSet[1].format),
             "delayParseAndSet", delayParseAndSet[1].text)

\* the reply to call i arrives: parseAndSet goes on after its await
WorkerReply(i) ==
  /\ i \in worker.pending
  /\ ops' = ops
  /\ Install(setTree([Wrapper EXCEPT !.worker.pending = @ \ {i}],
                     parseAndFormat(worker.calls[i].text, worker.calls[i].format)),
             "setTree", i)

NextEditor ==
  \/ \E txt \in EditorTexts : Type(txt)
  \/ \E txt \in EditorTexts, full \in BOOLEAN, changeFirst \in BOOLEAN :
       Paste(txt, full, changeFirst)
  \/ \E txt \in EditorTexts : DropFile(txt)
  \/ DebounceFires
  \/ \E i \in worker.pending : WorkerReply(i)

SpecEditor == InitEditor /\ [][NextEditor]_vars

----------------------------------------------------------------------------
(* Scroll synchronisation between the two editors *)

\* getAnotherEditor()
another(k) == CHOOSE o \in Kinds : o # k

\* the event onDidScrollChange hands to the handler of editor k; by tells
\* whether the user or a scrollTo call moved the editor
ScrollEvent(k, top, left, by) ==
  [kind |-> k, scrollTopChanged |-> top, scrollLeftChanged |-> left, by |-> by]

\* this.scrolling = Math.min(this.scrolling + 1, 1)
countScroll(counter) == Min(counter + 1, 1)

\* this.scrolling && getStatusState().enableSyncScroll
scrollable(counter, enableSyncScroll) == counter # 0 /\ enableSyncScroll

\* scrollTo(e) on editor k whose counter is `counter`: the new counter and the
\* scroll events setScrollTop and setScrollLeft raise, in that order.  A
\* setter raises an event when it moves the editor: never with a delta of 0,
\* and not when the editor is at its limit (movedTop, movedLeft).
scrollTo(counter, e, k, movedTop, movedLeft) ==
  IF e.scrollTopChanged \/ e.scrollLeftChanged
  THEN [scrolling |-> -1,
        raised |->
          (IF e.scrollTopChanged /\ movedTop
           THEN <<ScrollEvent(k, TRUE, FALSE, "scrollTo")>> ELSE <<>>)
          \o (IF e.scrollLeftChanged /\ movedLeft
              THEN <<ScrollEvent(k, FALSE, TRUE, "scrollTo")>> ELSE <<>>)]
  ELSE [scrolling |-> counter, raised |-> <<>>]

\* scroll events of the user (wheel, scroll bar, a change of the content size)
MaxScrolls == 3

InitScroll ==
  /\ nodeMap = EmptyTree.nodeMap
  /\ text = EmptyTree.text
  /\ errors = EmptyTree.errors
  /\ nestNodeMap = {}
  /\ ops = 0
  /\ last = Call("new", DefaultOptions, 0, <<>>, NotFound, FALSE, <<>>, "parse")
  /\ editorValue = <<>>
  /\ delayParseAndSet = <<>>
  /\ worker = [calls |-> <<>>, pending |-> {}]
  /\ \E enableSyncScroll \in BOOLEAN :
       status = [format |-> FALSE, enableSyncScroll |-> enableSyncScroll,
                 enableSyncFold |-> FALSE, lastFoldAction |-> NoFoldAction]
  /\ scrolling = [k \in Kinds |-> 0]
  /\ scrollEvents = <<>>
  /\ folding = [collapsed |-> [k \in Kinds |-> {}],
                cursor |-> [k \in Kinds |-> "none"],
                events |-> [k \in Kinds |-> 0],
                effects |-> [k \in Kinds |-> <<>>],
                published |-> 0]

\* the user scrolls editor k, or its content changes size (neither flag set);
\* the handlers of the scroll before have all returned
UserScroll(k, top, left) ==
  /\ ops < MaxScrolls
  /\ scrollEvents = <<>>
  /\ ops' = ops + 1
  /\ scrollEvents' = <<ScrollEvent(k, top, left, "user")>>
  /\ last' = Query("scroll", [kind |-> k], NotFound, FALSE, "parse")
  /\ UNCHANGED <<nodeMap, text, nestNodeMap, errors, editorValue, delayParseAndSet,
                 worker, status, scrolling, folding>>

\* the onDidScrollChange handler of the editor the next event belongs to; the
\* events its scrollTo call raises are handled before the ones still waiting
OnDidScrollChange(movedTop, movedLeft) ==
  /\ scrollEvents # <<>>
  /\ LET e == Head(scrollEvents)
         k == e.kind
         counter == countScroll(scrolling[k])
         forward == scrollable(counter, status.enableSyncScroll)
         to == scrollTo(scrolling[another(k)], e, another(k), movedTop, movedLeft)
     IN /\ scrolling' = [scrolling EXCEPT ![k] = counter,
                                          ![another(k)] = IF forward THEN to.scrolling ELSE @]
        /\ scrollEvents' = (IF forward THEN to.raised ELSE <<>>) \o Tail(scrollEvents)
        /\ last' = Query("onDidScrollChange", [event |-> e, forwarded |-> forward],
                         NotFound, FALSE, "parse")
  /\ UNCHANGED <<nodeMap, text, nestNodeMap, errors, ops, editorValue, delayParseAndSet,
                 worker, status, folding>>

NextScroll ==
  \/ \E k \in Kinds, top \in BOOLEAN, left \in BOOLEAN : UserScroll(k, top, left)
  \/ \E movedTop \in BOOLEAN, movedLeft \in BOOLEAN : OnDidScrollChange(movedTop, movedLeft)

SpecScroll == InitScroll /\ [][NextScroll]_vars

----------------------------------------------------------------------------
(* Fold synchronisation between the two editors *)

\* the object and array nodes both editors show with a folding region
FoldNodes == {"x", "y"}

\* lastAction && lastAction.nodeId === node.id && lastAction.isFolded ===
\* isNowFolded && lastAction.fromKind === this.kind (Condition E)
sentBefore(lastAction, nodeId, isNowFolded, k) ==
  /\ lastAction.nodeId = nodeId
  /\ lastAction.isFolded = isNowFolded
  /\ lastAction.fromKind = k

\* foldAction.fromKind === this.kind
fromSelf(foldAction, k) == foldAction.fromKind = k

\* currentCollapsedState === isFolded; the variant never finds the region in
\* the requested state
alreadyInState_never(currentCollapsedState, isFolded) == FALSE

alreadyInState(currentCollapsedState, isFolded) == currentCollapsedState = isFolded

\* setLastFoldAction(nodeId, isFolded, fromKind): the store holds the action,
\* and the useSyncFold effect of each editor is due with it
setLastFoldAction(f, nodeId, isFolded, k) ==
  LET action == [nodeId |-> nodeId, isFolded |-> isFolded, fromKind |-> k]
  IN [lastFoldAction |-> action,
      folding |-> [f EXCEPT !.effects = [e \in Kinds |-> Append(f.effects[e], action)],
                            !.published = @ + 1]]

\* the onDidChangeHiddenAreas handler of editor k: whether it publishes the
\* state of the node at the cursor
publishes(f, st, k) ==
  /\ st.enableSyncFold
  /\ f.cursor[k] \in FoldNodes
  /\ ~sentBefore(st.lastFoldAction, f.cursor[k], f.cursor[k] \in f.collapsed[k], k)

\* applyFoldAction(foldAction) in editor k: whether it calls
\* setCollapsedStateAtIndex
applies(f, st, k, foldAction) ==
  /\ st.enableSyncFold
  /\ ~fromSelf(foldAction, k)
  /\ foldAction.nodeId \in FoldNodes
  /\ ~alreadyInState(foldAction.nodeId \in f.collapsed[k], foldAction.isFolded)

\* setCollapsedStateAtIndex(index, isFolded) on the region of nodeId
setCollapsed(regions, nodeId, isFolded) ==
  IF isFolded THEN regions \cup {nodeId} ELSE regions \ {nodeId}

\* folds and unfolds made by the user
MaxFolds == 1
\* fold actions published through the store
MaxPublished == 6

InitFoldSync ==
  /\ nodeMap = EmptyTree.nodeMap
  /\ text = EmptyTree.text
  /\ errors = EmptyTree.errors
  /\ nestNodeMap = {}
  /\ ops = 0
  /\ last = Call("new", DefaultOptions, 0, <<>>, NotFound, FALSE, <<>>, "parse")
  /\ editorValue = <<>>
  /\ delayParseAndSet = <<>>
  /\ worker = [calls |-> <<>>, pending |-> {}]
  /\ \E enableSyncFold \in BOOLEAN :
       status = [format |-> FALSE, enableSyncScroll |-> FALSE,
                 enableSyncFold |-> enableSyncFold, lastFoldAction |-> NoFoldAction]
  /\ scrolling = [k \in Kinds |-> 0]
  /\ scrollEvents = <<>>
  /\ \E collapsed \in [Kinds -> SUBSET FoldNodes],
        cursor \in [Kinds -> FoldNodes \cup {"none"}] :
       folding = [collapsed |-> collapsed,
                  cursor |-> cursor,
                  events |-> [k \in Kinds |-> 0],
                  effects |-> [k \in Kinds |-> <<>>],
                  published |-> 0]

\* the user folds or unfolds the region of node n in editor k
UserFold(k, n) ==
  /\ ops < MaxFolds
  /\ ops' = ops + 1
  /\ folding' = [folding EXCEPT
                   !.collapsed[k] = setCollapsed(@, n, n \notin folding.collapsed[k]),
                   !.events[k] = @ + 1]
  /\ last' = Query("fold", [kind |-> k, nodeId |-> n], NotFound, FALSE, "parse")
  /\ UNCHANGED <<nodeMap, text, nestNodeMap, errors, editorValue, delayParseAndSet,
                 worker, status, scrolling, scrollEvents>>

\* the onDidChangeHiddenAreas handler of editor k runs
OnDidChangeHiddenAreas(k) ==
  /\ folding.events[k] > 0
  /\ LET f == [folding EXCEPT !.events[k] = @ - 1]
         nodeId == f.cursor[k]
         sent == setLastFoldAction(f, nodeId, nodeId \in f.collapsed[k], k)
     IN IF publishes(f, status, k)
        THEN /\ folding.published < MaxPublished
             /\ folding' = sent.folding
             /\ status' = [status EXCEPT !.lastFoldAction = sent.lastFoldAction]
        ELSE /\ folding' = f
             /\ status' = status
  /\ last' = Query("onDidChangeHiddenAreas", [kind |-> k], NotFound, FALSE, "parse")
  /\ UNCHANGED <<nodeMap, text, nestNodeMap, errors, ops, editorValue, delayParseAndSet,
                 worker, scrolling, scrollEvents>>

\* the useSyncFold effect of editor k runs applyFoldAction with the action it
\* is due with.  A call of setCollapsedStateAtIndex that changes the region
\* raises onDidChangeHiddenAreas; one that changes nothing may raise it or
\* not (raises).
ApplyFoldAction(k, raises) ==
  /\ folding.effects[k] # <<>>
  /\ LET foldAction == Head(folding.effects[k])
         f == [folding EXCEPT !.effects[k] = Tail(@)]
         regions == setCollapsed(f.collapsed[k], foldAction.nodeId, foldAction.isFolded)
     IN folding' =
          IF applies(f, status, k, foldAction)
          THEN [f EXCEPT !.collapsed[k] = regions,
                         !.events[k] = IF regions # f.collapsed[k] \/ raises
                                       THEN @ + 1 ELSE @]
          ELSE f
  /\ last' = Query("applyFoldAction", [kind |-> k], NotFound, FALSE, "parse")
  /\ UNCHANGED <<nodeMap, text, nestNodeMap, errors, ops, editorValue, delayParseAndSet,
                 worker, status, scrolling, scrollEvents>>

NextFoldSync ==
  \/ \E k \in Kinds, n \in FoldNodes : UserFold(k, n)
  \/ \E k \in Kinds : OnDidChangeHiddenAreas(k)
  \/ \E k \in Kinds, raises \in BOOLEAN : ApplyFoldAction(k, raises)

SpecFoldSync == InitFoldSync /\ [][NextFoldSync]_vars

----------------------------------------------------------------------------
(* Properties *)

Ids == DOMAIN nodeMap

SpanOK(n) ==
  n.boundOffset <= n.offset /\ n.boundOffset + n.boundLength = n.offset + n.length

SameSpans(m, n) ==
  /\ m.offset = n.offset
  /\ m.length = n.length
  /\ m.boundOffset = n.boundOffset
  /\ m.boundLength = n.boundLength

\* C1: after any non-pure stringify and after any stringifyNestNodes, every
\* node has boundOffset <= offset and boundOffset + boundLength = offset + length.
C1_OffsetInvariant ==
  ((last.op = "stringify" /\ ~last.options.pure) \/ last.op = "stringifyNestNodes")
    => \A id \in Ids : SpanOK(nodeMap[id])

\* the children of container id, in the order of its stored childrenKeys
ChildAt(id, i) == nodeMap[Append(id, nodeMap[id].childrenKeys[i])]

Ordered(id) ==
  \A i \in 1..(Len(nodeMap[id].childrenKeys) - 1) :
    /\ ChildAt(id, i).boundOffset < ChildAt(id, i + 1).boundOffset
    /\ ChildAt(id, i).boundOffset + ChildAt(id, i).boundLength
         <= ChildAt(id, i + 1).boundOffset

\* C2: after stringify with any options, the children of every container,
\* taken in stored childrenKeys order, have non-overlapping bound intervals
\* with strictly increasing boundOffset.
C2_OrderingInvariant == last.op = "stringify" => \A id \in Ids : Ordered(id)

\* (boundOffset, boundOffset + boundLength] holds offset o
InSpan(n, o) == n.boundOffset < o /\ o <= n.boundOffset + n.boundLength

\* the nodes that hold o together with all their ancestors: what a scan of
\* every child of every node on the way down comes by
Hits(o) == {id \in Ids : \A k \in 0..Len(id) : InSpan(nodeMap[SubSeq(id, 1, k)], o)}

IsDeepestHit(r, o) ==
  IF Hits(o) = {} THEN ~r.found
  ELSE r.found /\ r.id \in Hits(o) /\ \A h \in Hits(o) : Len(h) <= Len(r.id)

TextA1 == <<"{", "\"", "a", "\"", ":", "1", "}">>

\* C3: on a tree whose spans stringify produced, findNodeAtOffset(o) is the
\* deepest node that holds o in its bound span together with all its
\* ancestors; for {"a":1}, offset 6 gives the node of "a", offset 1 the root.
C3_FindIsDeepestHit ==
  (last.op = "findNodeAtOffset" /\ last.spans = "stringify") =>
    /\ IsDeepestHit(last.result, last.offset)
    /\ (text = TextA1 /\ last.offset = 6) => last.result.id = <<"a">>
    /\ (text = TextA1 /\ last.offset = 1) => last.result.id = rootMarker

\* C3 witness: a lookup on a stringified tree that ends three levels down,
\* right of its siblings
C3_Witness ==
  /\ last.op = "findNodeAtOffset"
  /\ last.spans = "stringify"
  /\ last.result.id = <<"a", "1", "c">>

\* C4: the result type is "node" exactly for the root and for nodes with a
\* child; else "value" for offset < o <= offset + length and "key" for
\* boundOffset < o <= offset.
C4_ResultType ==
  (last.op = "findNodeAtOffset" /\ last.result.found) =>
    LET n == nodeMap[last.result.id]
        o == last.offset
        type == last.result.type
    IN /\ type = "node" <=> (n.id = rootMarker \/ n.childrenKeys # <<>>)
       /\ type # "node" =>
            /\ type = "value" <=> (n.offset < o /\ o <= n.offset + n.length)
            /\ type = "key" <=> (n.boundOffset < o /\ o <= n.offset)

\* C4 witness: a lookup that lands on the key of an object member
C4_Witness ==
  /\ last.op = "findNodeAtOffset"
  /\ last.result.found
  /\ last.result.type = "key"
  /\ nodeMap[last.result.id].boundOffset < nodeMap[last.result.id].offset

IsMember(id) == id # rootMarker /\ nodeMap[getParentId(id)].type = "object"

QuotedKey(id) == <<"\"", id[Len(id)], "\"", ":">>

\* the text stringifyNode emits for node id at its depth, nothing written
Emitted(id, options) ==
  stringifyNode(nodeMap, id, [options EXCEPT !.pure = TRUE], Len(id), 0, 0).str

OwnSlice(id) == Slice(text, nodeMap[id].offset, nodeMap[id].offset + nodeMap[id].length)

KeySlice(id) == Slice(text, nodeMap[id].boundOffset, nodeMap[id].offset)

OpenOf(n) == IF n.type = "object" THEN "{" ELSE "["
CloseOf(n) == IF n.type = "object" THEN "}" ELSE "]"

\* the span of node id covers exactly the text emitted for it
SliceIsEmitted(id, options) ==
  LET n == nodeMap[id] IN
  /\ OwnSlice(id) = Emitted(id, options)
  /\ Len(OwnSlice(id)) = n.length
  /\ isIterable(n) => Head(OwnSlice(id)) = OpenOf(n) /\ OwnSlice(id)[n.length] = CloseOf(n)
  /\ ~isIterable(n) => OwnSlice(id) = n.raw

\* C5 as stated: after a non-pure stringify the text is the returned string,
\* every node's span covers exactly its emitted text, and the text between
\* boundOffset and offset of an object member is its quoted key and the colon.
C5_SpansMatchText_KeyColon ==
  (last.op = "stringify" /\ ~last.options.pure) =>
    /\ text = last.ret
    /\ \A id \in Ids :
         /\ SliceIsEmitted(id, last.options)
         /\ IsMember(id) => KeySlice(id) = QuotedKey(id)

\* C5 amended: as C5, the text between boundOffset and offset of an object
\* member being its quoted key, the colon and, when format is on, one space;
\* for the root and for array elements boundOffset = offset.
C5_SpansMatchText ==
  (last.op = "stringify" /\ ~last.options.pure) =>
    /\ text = last.ret
    /\ \A id \in Ids :
         /\ SliceIsEmitted(id, last.options)
         /\ IsMember(id) =>
              KeySlice(id) = QuotedKey(id) \o (IF last.options.format THEN <<" ">> ELSE <<>>)
         /\ ~IsMember(id) => nodeMap[id].boundOffset = nodeMap[id].offset

\* C5 witness: a formatted, sorted, non-pure stringify of a nested value
C5_Witness ==
  /\ last.op = "stringify"
  /\ ~last.options.pure /\ last.options.format /\ last.options.sort = "desc"
  /\ <<"a", "1", "c">> \in Ids

\* C6: a stringify with sort "asc" or "desc" leaves the childrenKeys stored on
\* every node as they were.
C6_ChildrenKeysKept ==
  [][(last'.op = "stringify" /\ ops' = ops + 1 /\ ~last'.options.pure
        /\ last'.options.sort # "none")
       => \A id \in Ids : nodeMap'[id].childrenKeys = nodeMap[id].childrenKeys]_vars

\* C7: a stringify with pure: true leaves offset, length, boundOffset and
\* boundLength of every node, the root included, as they were.
C7_PureKeepsSpans ==
  [][(last'.op = "stringify" /\ ops' = ops + 1 /\ last'.options.pure)
       => \A id \in Ids : SameSpans(nodeMap'[id], nodeMap[id])]_vars

Pending == nestNodeMap \cap Ids

Splice(txt, offset, length, content) ==
  SubSeq(txt, 1, offset) \o content \o SubSeq(txt, offset + length + 1, Len(txt))

\* the effect C8 states of a patch whose one pending node is container p
OnePendingEffect(p) ==
  LET old == nodeMap[p]
      content == stringifyNode(nodeMap, p, [last'.options EXCEPT !.pure = TRUE], 0, 0, 0).str
      delta == Len(content) - old.length
  IN /\ text' = Splice(text, old.offset, old.length, content)
     /\ \A id \in Ids :
          (id # p /\ ~IsPrefix(p, id)) =>
            /\ nodeMap[id].offset >= old.offset + old.length =>
                 /\ nodeMap'[id].offset = nodeMap[id].offset + delta
                 /\ nodeMap'[id].boundOffset = nodeMap[id].boundOffset + delta
            /\ nodeMap[id].offset + nodeMap[id].length <= old.offset =>
                 SameSpans(nodeMap'[id], nodeMap[id])

IsTrimOf(t, s) ==
  /\ t = <<>> \/ (t[1] \notin WS /\ t[Len(t)] \notin WS)
  /\ \E i, j \in 0..Len(s) :
       /\ i + j <= Len(s)
       /\ t = SubSeq(s, i + 1, Len(s) - j)
       /\ \A k \in 1..i : s[k] \in WS
       /\ \A k \in (Len(s) - j + 1)..Len(s) : s[k] \in WS

\* C9: when nestNodeMap names no node of the tree, stringifyNestNodes leaves
\* the four span fields of every node as they were and sets text to the
\* previous text without its surrounding whitespace.
C9_NoPendingFrame ==
  [][(last'.op = "stringifyNestNodes" /\ ops' = ops + 1 /\ Pending = {})
       => /\ \A id \in Ids : SameSpans(nodeMap'[id], nodeMap[id])
          /\ IsTrimOf(text', text)]_vars

\* C9 witness: a patch, as first call on the parsed tree whose nestNodeMap
\* names only a stray identifier and whose source ends in a newline, has
\* left the text ending in the closing bracket
C9_Witness ==
  /\ last.op = "stringifyNestNodes"
  /\ ops = 1
  /\ nestNodeMap = {StrayId}
  /\ text[Len(text)] = "}"

RECURSIVE Squeeze(_)
\* s without its whitespace
Squeeze(s) ==
  IF s = <<>> THEN <<>>
  ELSE (IF Head(s) \in WS THEN <<>> ELSE <<Head(s)>>) \o Squeeze(Tail(s))

\* the span of node id lies in the text and covers a serialization of it
SliceIsNode(id) ==
  /\ Len(OwnSlice(id)) = nodeMap[id].length
  /\ Squeeze(OwnSlice(id)) = Emitted(id, DefaultOptions)
  /\ OwnSlice(id) # <<>> => OwnSlice(id)[1] \notin WS

\* C10: after stringifyNestNodes the span of every node covers that node's
\* serialization in the new text.  Stated of a call with non-pure options on
\* a tree as parsed.
C10_SpansMatchPatchedText ==
  (last.op = "stringifyNestNodes" /\ ops = 1 /\ ~last.options.pure)
    => \A id \in Ids : SliceIsNode(id)

----------------------------------------------------------------------------
(* Round trip and equality *)

\* C11: parsing the text that stringify returned gives a tree without errors
\* that isEquals the stringified tree and has the same toJSON.
C11_RoundTrip ==
  last.op = "parseJSON" =>
    /\ last.arg.errors = <<>>
    /\ isEquals(last.arg.nodeMap, nodeMap)
    /\ toJSON(last.arg.nodeMap, rootMarker) = toJSON(nodeMap, rootMarker)

\* what isEquals is meant to compare: the type of every node, the raw token
\* of every leaf and the children of every container by key
RECURSIVE ShapeOf(_, _)
ShapeOf(nm, id) ==
  LET n == nm[id]
      keys == n.childrenKeys
  IN IF keys = <<>> THEN [type |-> n.type, raw |-> n.raw]
     ELSE [type |-> n.type,
           members |-> [k \in {keys[i] : i \in 1..Len(keys)} |-> ShapeOf(nm, Append(id, k))]]

KeySet(n) == {n.childrenKeys[i] : i \in 1..Len(n.childrenKeys)}

\* the identifiers both trees of the last comparison hold
Both == DOMAIN nodeMap \cap DOMAIN OtherTree(last.arg.other)

\* C12: two trees that hold the same keys with equal values at every position
\* are equal whatever the order of their childrenKeys.
C12_OrderInsensitive ==
  (last.op = "isEquals"
     /\ ShapeOf(nodeMap, rootMarker) = ShapeOf(OtherTree(last.arg.other), rootMarker))
    => last.result

C12_Witness ==
  /\ last.op = "isEquals"
  /\ last.result
  /\ \E id \in Both :
       /\ KeySet(nodeMap[id]) = KeySet(OtherTree(last.arg.other)[id])
       /\ nodeMap[id].childrenKeys # OtherTree(last.arg.other)[id].childrenKeys
       /\ Len(id) > 0

\* C13: isEquals is false when, at some pair of corresponding containers, a key
\* is present on one side and absent on the other, in either argument order.
C13_MissingKeyUnequal ==
  (last.op = "isEquals"
     /\ \E id \in Both :
          /\ isIterable(nodeMap[id])
          /\ isIterable(OtherTree(last.arg.other)[id])
          /\ KeySet(nodeMap[id]) # KeySet(OtherTree(last.arg.other)[id]))
    => ~last.result

\* the extra key is on the second argument's side
C13_Witness ==
  /\ last.op = "isEquals"
  /\ ~last.result
  /\ \E id \in Both :
       LET mine == KeySet(nodeMap[id])
           theirs == KeySet(OtherTree(last.arg.other)[id])
       IN /\ mine # {}
          /\ IF last.arg.swapped THEN theirs \subseteq mine /\ theirs # mine
             ELSE mine \subseteq theirs /\ theirs # mine
          /\ \A k \in mine \cap theirs :
               ShapeOf(nodeMap, Append(id, k))
                 = ShapeOf(OtherTree(last.arg.other), Append(id, k))

\* the tree with every span set to 0
NoSpans(nm) ==
  [id \in DOMAIN nm |->
     [nm[id] EXCEPT !.offset = 0, !.length = 0, !.boundOffset = 0, !.boundLength = 0]]

\* C14: the result of isEquals is the one it gives on the same two trees with
\* all spans erased, and the call leaves the tree and its text as they were.
C14_SpansIgnored ==
  [][last'.op = "isEquals" =>
       /\ nodeMap' = nodeMap
       /\ text' = text
       /\ last'.result =
            (IF last'.arg.swapped
             THEN isEquals(NoSpans(OtherTree(last'.arg.other)), NoSpans(nodeMap))
             ELSE isEquals(NoSpans(nodeMap), NoSpans(OtherTree(last'.arg.other))))]_vars

\* a formatted tree found equal to a compact one
C14_Witness ==
  /\ last.op = "isEquals"
  /\ last.result
  /\ last.spans = "stringify"
  /\ \E i \in 1..Len(text) : text[i] = "\n" /\ i < Len(text)
  /\ \E id \in Both : ~SameSpans(nodeMap[id], OtherTree(last.arg.other)[id])

\* C15: isEquals is false when the nodes at some corresponding position have
\* different types, and on two leaves of one type it is true exactly when their
\* raw tokens are identical.
C15_TypeAndRaw ==
  last.op = "isEquals" =>
    LET other == OtherTree(last.arg.other)
        n1 == nodeMap[rootMarker]
        n2 == other[rootMarker]
    IN /\ (\E id \in Both : nodeMap[id].type # other[id].type) => ~last.result
       /\ (~isIterable(n1) /\ ~isIterable(n2) /\ n1.type = n2.type)
            => (last.result <=> n1.raw = n2.raw)

\* the number tokens 1 and 1.0 found unequal
C15_Witness ==
  /\ last.op = "isEquals"
  /\ ~last.result
  /\ nodeMap[rootMarker].raw = <<"1">>
  /\ nodeMap[rootMarker].type = "number"
  /\ OtherTree(last.arg.other)[rootMarker].raw = <<"1", ".", "0">>

----------------------------------------------------------------------------
(* Path lookup, invalid trees, graph nodes *)

\* the last findNodeByPath call continued the path of a node of the tree by
\* one segment that leads nowhere from that node: the node is a leaf, the
\* segment is an index and the node an object, a key and the node an array,
\* or the node has no child of that key
LeadsNowhere ==
  /\ last.op = "findNodeByPath"
  /\ last.arg.base \in DOMAIN nodeMap
  /\ last.arg.ext.kind \in {"key", "index"}
  /\ LET n == nodeMap[last.arg.base]
     IN \/ ~isIterable(n)
        \/ last.arg.ext.kind = "index" /\ n.type = "object"
        \/ last.arg.ext.kind = "key" /\ n.type = "array"
        \/ last.arg.ext.key \notin KeySet(n)

\* C16: findNodeByPath returns no result, and does not raise, when a segment
\* names a missing key or an out-of-range index, applies an index to an object
\* or a key to an array, or goes on past a leaf.
C16_PathFailsClosed ==
  LeadsNowhere => (~last.result.found /\ ~last.threw)

\* the index 0 applied to an object that has a member "0"
C16_Witness ==
  /\ LeadsNowhere
  /\ ~last.result.found
  /\ last.arg.ext.kind = "index"
  /\ nodeMap[last.arg.base].type = "object"
  /\ last.arg.ext.key \in KeySet(nodeMap[last.arg.base])

\* C17: on a valid tree, findNodeByPath applied to the path expression of a
\* node returns that node.
C17_PathFindsNode ==
  (last.op = "findNodeByPath" /\ errors = <<>> /\ last.arg.base \in DOMAIN nodeMap
     /\ last.arg.ext.kind = "none")
    => (last.result.found /\ last.result.id = last.arg.base)

\* a node below an array, reached through a bracket-quoted key
C17_Witness ==
  /\ last.op = "findNodeByPath"
  /\ errors = <<>>
  /\ last.arg.ext.kind = "none"
  /\ ~last.arg.dollar
  /\ last.arg.base = <<"[", "0">>
  /\ last.arg.path = <<"[", "\"", "[", "\"", "]", "[", "0", "]">>
  /\ last.result.found

\* C18: the paths '' and '$' give the root node, and a path that starts with
\* '$.' and goes on gives what the path without these two characters gives.
C18_RootMarker ==
  last.op = "findNodeByPath" =>
    LET path == last.arg.path
    IN /\ (path \in {<<>>, <<"$">>} /\ rootMarker \in DOMAIN nodeMap)
            => (last.result.found /\ last.result.id = rootMarker)
       /\ (Len(path) >= 3 /\ path[1] = "$" /\ path[2] = ".")
            => last.result = findNodeByPath(nodeMap, SubSeq(path, 3, Len(path)))

C18_Witness ==
  /\ last.op = "findNodeByPath"
  /\ last.arg.path = <<"$", ".", "a", "[", "1", "]", ".", "c">>
  /\ last.result.found
  /\ last.result.id = <<"a", "1", "c">>

\* C19: on a tree without a root node or with errors, findNodeAtOffset returns
\* no result for every offset and does not raise.
C19_InvalidTreeNoResult ==
  (last.op = "findNodeAtOffset" /\ (rootMarker \notin DOMAIN nodeMap \/ errors # <<>>))
    => (last.result = NotFound /\ ~last.threw)

\* the tree has errors and a root whose bound holds the offset
C19_Witness ==
  /\ last.op = "findNodeAtOffset"
  /\ errors # <<>>
  /\ rootMarker \in DOMAIN nodeMap
  /\ inBound(nodeMap[rootMarker], last.offset)
  /\ last.result = NotFound

\* C20: getGraphNodeId(id) is id for the root and for a node with children,
\* else the parent identifier; either way it names a node of the tree that is
\* the root or has children.
C20_GraphNodeId ==
  last.op = "getGraphNodeId" =>
    LET id == last.arg
        n == nodeMap[id]
        r == last.result
    IN /\ r = (IF id = rootMarker \/ n.childrenKeys # <<>> THEN id
               ELSE SubSeq(id, 1, Len(id) - 1))
       /\ r \in DOMAIN nodeMap
       /\ r = rootMarker \/ nodeMap[r].childrenKeys # <<>>

\* an empty container below the root is sent to its parent
C20_Witness ==
  /\ last.op = "getGraphNodeId"
  /\ last.arg # rootMarker
  /\ isIterable(nodeMap[last.arg])
  /\ last.result = getParentId(last.arg)
  /\ last.result # last.arg

----------------------------------------------------------------------------
(* Offset lookup made total; the patch engine called twice *)

\* C25: on a tree whose text and spans stringify produced, findNodeAtOffset(o)
\* returns a node exactly when 0 < o <= text.length.
C25_FindCoversText ==
  (last.op = "findNodeAtOffset" /\ last.spans = "stringify")
    => (last.result.found <=> (0 < last.offset /\ last.offset <= Len(text)))

\* the offset text.length finds a node, in a text of several lines
C25_Witness ==
  /\ last.op = "findNodeAtOffset"
  /\ last.spans = "stringify"
  /\ last.offset = Len(text)
  /\ \E i \in 1..Len(text) : text[i] = "\n"
  /\ last.result.found

\* C26: a second stringifyNestNodes call with the same options, right after the
\* first, leaves the text and the four span fields of every node as they were.
C26_PatchIdempotent ==
  [][(last.op = "stringifyNestNodes" /\ last'.op = "stringifyNestNodes"
        /\ last'.options = last.options)
       => (text' = text
             /\ \A id \in DOMAIN nodeMap : SameSpans(nodeMap'[id], nodeMap[id]))]_vars

----------------------------------------------------------------------------
(* Folding ranges *)

\* the line of the 0-based offset off of the text
LineOf(off) == 1 + Cardinality({i \in 1..off : text[i] = "\n"})

\* the offset of the closing bracket of container n
CloseOf0(n) == n.offset + n.length - 1

\* nothing but spaces stands between the start of its line and offset off
OwnLine(off) ==
  /\ \E i \in 1..off : text[i] = "\n"
  /\ \A i \in 1..off : (\A j \in i..off : text[j] # "\n") => text[i] = " "

\* C22: a range emitted for a container whose closing bracket stands on its
\* own line ends on the line before the bracket's line, never before the start
\* line; any other range ends on the line of the closing bracket.
C22_EndLine ==
  last.op = "provideFoldingRanges" =>
    \A r \in last.result.ranges :
      LET n == nodeMap[r.nodeId]
      IN r.end = IF OwnLine(CloseOf0(n))
                 THEN Max(LineOf(n.offset), LineOf(CloseOf0(n)) - 1)
                 ELSE LineOf(CloseOf0(n))

C24_NoTreeNoRanges ==
  (/\ last.op = "provideFoldingRanges"
   /\ \/ last.arg \in {"undefined", "noNodeMap"}
      \/ ~valid(nodeMap, errors))
    => (last.result.ranges = {} /\ last.result.visited = {})

\* the provider was handed a tree with errors that holds a container of
\* several lines
C24_Witness ==
  /\ last.op = "provideFoldingRanges"
  /\ last.arg = "tree"
  /\ errors # <<>>
  /\ \E id \in Ids :
       /\ nodeMap[id].childrenKeys # <<>>
       /\ LineOf(nodeMap[id].offset) < LineOf(CloseOf0(nodeMap[id]))
  /\ last.result.ranges = {}

----------------------------------------------------------------------------
(* The parse pipeline of the editor *)

\* C21: once every worker reply has arrived, in whatever order, the editor's
\* tree is the one parsed from the text submitted last; in particular when
\* two parseAndSet calls were in flight together.
C21_LatestWins ==
  (worker.pending = {} /\ worker.calls # <<>>) =>
    LET c == worker.calls[Len(worker.calls)]
    IN [nodeMap |-> nodeMap, text |-> text, errors |-> errors]
         = parseAndFormat(c.text, c.format)

\* C27: the step that installs a parse result schedules no parse and sends
\* none, and the parses sent or scheduled never outnumber the user's edits.
C27_InstallSchedulesNothing ==
  [][/\ last'.op = "setTree"
          => (delayParseAndSet' = delayParseAndSet /\ worker'.calls = worker.calls)
     /\ Len(worker'.calls) + Len(delayParseAndSet') <= ops']_vars

\* a reply has installed a text the formatter changed, and nothing is
\* scheduled or in flight
C27_Witness ==
  /\ last.op = "setTree"
  /\ worker.calls[last.arg].text # text
  /\ editorValue = text
  /\ delayParseAndSet = <<>>
  /\ worker.pending = {}

\* C30: the step of a paste that replaces the whole document leaves no
\* debounced parse pending and sends exactly one parse, of the pasted text.
C30_PasteParsesOnce ==
  [][(last'.op = "onDidPaste" /\ last'.arg.full)
       => /\ delayParseAndSet' = <<>>
          /\ Len(worker'.calls) = Len(worker.calls) + 1
          /\ worker'.calls[Len(worker'.calls)].text = editorValue'
          /\ text' = editorValue']_vars

\* a paste of the whole document came after its change event, while a
\* debounced parse of an earlier edit was pending
C30_Witness ==
  /\ last.op = "onDidPaste"
  /\ last.arg.full
  /\ last.arg.changeFirst
  /\ last.arg.hadTimer
  /\ delayParseAndSet = <<>>

----------------------------------------------------------------------------
(* Scroll synchronisation *)

\* C29: a scroll event raised by scrollTo is never forwarded to the other
\* editor, and the scrolling counter of each editor is -1, 0 or 1.
C29_NoScrollEcho ==
  /\ \A k \in Kinds : scrolling[k] \in {-1, 0, 1}
  /\ (last.op = "onDidScrollChange" /\ last.arg.event.by = "scrollTo")
       => ~last.arg.forwarded

----------------------------------------------------------------------------
(* Fold synchronisation *)

\* C28: after a single fold or unfold by the user, at most three fold
\* actions are ever published through setLastFoldAction: the exchange between
\* the two editors comes to rest.
C28_FoldSyncQuiesces == ops <= 1 => folding.published <= 3

\* with sync on, one user fold has led to three published actions, and no
\* handler or effect is due any more
C28_Witness ==
  /\ status.enableSyncFold
  /\ ops = 1
  /\ folding.published = 3
  /\ \A k \in Kinds : folding.events[k] = 0 /\ folding.effects[k] = <<>>

====
